---- MODULE Spec2Model ----
(***************************************************************************)
(* The bencode decoder of src/src/main.rs (mod bencode), as a state        *)
(* machine.  The input text is a sequence of one-character strings, the    *)
(* cursor `start_pos` is a 0-based offset into it, and the Rust call stack *)
(* of parse_bt_list / parse_bt_dic activations is the sequence `stack`.    *)
(* All characters of the model are ASCII, so byte offsets and character    *)
(* offsets coincide.                                                       *)
(***************************************************************************)
EXTENDS Integers, Sequences, FiniteSets, TLC

VARIABLES encoded_value, start_pos, stack, pc, ret, result, preserve_order

vars == <<encoded_value, start_pos, stack, pc, ret, result, preserve_order>>

(***************************************************************************)
(* Text helpers (Rust str operations used by the decoder).                 *)
(***************************************************************************)
Digits == {"0", "1", "2", "3", "4", "5", "6", "7", "8", "9"}

DigitValue ==
  ("0" :> 0) @@ ("1" :> 1) @@ ("2" :> 2) @@ ("3" :> 3) @@ ("4" :> 4) @@
  ("5" :> 5) @@ ("6" :> 6) @@ ("7" :> 7) @@ ("8" :> 8) @@ ("9" :> 9)

\* char::is_digit(10)
IsDigit(c) == c \in Digits

\* &s[from..] with a 0-based byte offset
SliceFrom(s, from) == SubSeq(s, from + 1, Len(s))

\* &s[from..to] with 0-based byte offsets, to exclusive
Slice(s, from, to) == SubSeq(s, from + 1, to)

None == [some |-> FALSE]

Some(x) == [some |-> TRUE, val |-> x]

\* str::find(char): 0-based offset of the first occurrence
Find(s, c) ==
  IF \E i \in 1..Len(s) : s[i] = c
  THEN Some((CHOOSE i \in 1..Len(s) : s[i] = c /\ \A j \in 1..(i - 1) : s[j] # c) - 1)
  ELSE None

\* s.chars().next()
FirstChar(s) == IF s = <<>> THEN None ELSE Some(s[1])

(***************************************************************************)
(* str::parse::<i64>(): an optional sign, then one or more ASCII digits,   *)
(* and the value must fit in 64 bits.  The 64-bit limits are compared      *)
(* digit by digit.                                                         *)
(***************************************************************************)
I64MaxDigits ==
  <<"9","2","2","3","3","7","2","0","3","6","8","5","4","7","7","5","8","0","7">>

I64MinDigits ==
  <<"9","2","2","3","3","7","2","0","3","6","8","5","4","7","7","5","8","0","8">>

RECURSIVE StripZeros(_)
StripZeros(ds) ==
  IF ds # <<>> /\ ds[1] = "0" THEN StripZeros(Tail(ds)) ELSE ds

\* a > b for digit strings of equal length
RECURSIVE DigitsGreater(_, _)
DigitsGreater(a, b) ==
  IF a = <<>> THEN FALSE
  ELSE IF a[1] # b[1] THEN DigitValue[a[1]] > DigitValue[b[1]]
  ELSE DigitsGreater(Tail(a), Tail(b))

Overflows(ds, negative) ==
  LET sig == StripZeros(ds)
      lim == IF negative THEN I64MinDigits ELSE I64MaxDigits
  IN  \/ Len(sig) > Len(lim)
      \/ Len(sig) = Len(lim) /\ DigitsGreater(sig, lim)

RECURSIVE DigitsToInt(_)
DigitsToInt(ds) ==
  IF ds = <<>> THEN 0
  ELSE 10 * DigitsToInt(SubSeq(ds, 1, Len(ds) - 1)) + DigitValue[ds[Len(ds)]]

ParseFail == [ok |-> FALSE]

ParseI64(s) ==
  IF s = <<>> THEN ParseFail
  ELSE LET signed == s[1] \in {"+", "-"}
           negative == s[1] = "-"
           ds == IF signed THEN Tail(s) ELSE s
       IN  IF ds = <<>> THEN ParseFail
           ELSE IF \E i \in 1..Len(ds) : ~IsDigit(ds[i]) THEN ParseFail
           ELSE IF Overflows(ds, negative) THEN ParseFail
           ELSE [ok |-> TRUE,
                 val |-> IF negative THEN 0 - DigitsToInt(ds) ELSE DigitsToInt(ds)]

(***************************************************************************)
(* BencodeError, BencodeType, serde_json::Value and Result.                *)
(***************************************************************************)
ParseError(msg) == [ParseError |-> msg]

Other(msg) == [Other |-> msg]

BtString(s) == [BtString |-> s]

BtNumber(n) == [BtNumber |-> n]

BtLists(l) == [BtLists |-> l]

BtDictionary(d) == [BtDictionary |-> d]

JsonString(s) == [String |-> s]

JsonNumber(n) == [Number |-> n]

JsonArray(l) == [Array |-> l]

\* an object is the sequence of its <<key, value>> entries in iteration order
JsonObject(entries) == [Object |-> entries]

Ok(x) == [Ok |-> x]

Err(e) == [Err |-> e]

IsOk(r) == DOMAIN r = {"Ok"}

IsErr(r) == DOMAIN r = {"Err"}

IsParseError(r) == IsErr(r) /\ DOMAIN r.Err = {"ParseError"}

IsOther(r) == IsErr(r) /\ DOMAIN r.Err = {"Other"}

IsBtString(bt) == DOMAIN bt = {"BtString"}

\* what a parse function did: returned `ret` with the cursor at `pos`, or panicked
Returned(r, pos) == [panicked |-> FALSE, ret |-> r, pos |-> pos]

Panicked == [panicked |-> TRUE]

(***************************************************************************)
(* serde_json::Map.  Its iteration order is a property of the build: a     *)
(* BTreeMap (sorted by key) by default, an IndexMap (insertion order) with *)
(* serde_json's "preserve_order" feature.  Both replace the value of a key *)
(* that is already present.                                                *)
(***************************************************************************)
Ascii ==
  ("+" :> 43) @@ ("-" :> 45) @@
  ("0" :> 48) @@ ("1" :> 49) @@ ("2" :> 50) @@ ("3" :> 51) @@ ("4" :> 52) @@
  ("5" :> 53) @@ ("6" :> 54) @@ ("7" :> 55) @@ ("8" :> 56) @@ ("9" :> 57) @@
  (":" :> 58) @@
  ("a" :> 97) @@ ("b" :> 98) @@ ("c" :> 99) @@ ("d" :> 100) @@ ("e" :> 101) @@
  ("i" :> 105) @@ ("k" :> 107) @@ ("l" :> 108) @@ ("m" :> 109) @@
  ("p" :> 112) @@ ("s" :> 115) @@ ("x" :> 120) @@ ("y" :> 121)

\* a < b as Rust Strings (byte-wise lexicographic)
RECURSIVE StrLess(_, _)
StrLess(a, b) ==
  IF b = <<>> THEN FALSE
  ELSE IF a = <<>> THEN TRUE
  ELSE IF a[1] # b[1] THEN Ascii[a[1]] < Ascii[b[1]]
  ELSE StrLess(Tail(a), Tail(b))

HasKey(entries, key) == \E i \in 1..Len(entries) : entries[i][1] = key

ReplaceValue(entries, key, value) ==
  [i \in 1..Len(entries) |->
     IF entries[i][1] = key THEN <<key, value>> ELSE entries[i]]

\* the entries with a smaller key, the new entry, the entries with a larger key
SortedInsert(entries, key, value) ==
  LET n == Cardinality({i \in 1..Len(entries) : StrLess(entries[i][1], key)})
  IN  SubSeq(entries, 1, n) \o <<<<key, value>>>> \o SubSeq(entries, n + 1, Len(entries))

\* an insert that leaves a key that is already present alone
MapInsertKeepFirst(entries, key, value, keep_order) ==
  IF HasKey(entries, key) THEN entries
  ELSE IF keep_order THEN Append(entries, <<key, value>>)
  ELSE SortedInsert(entries, key, value)

\* Map::insert; keep_order is the build's preserve_order
MapInsert(entries, key, value, keep_order) ==
  IF HasKey(entries, key) THEN ReplaceValue(entries, key, value)
  ELSE IF keep_order THEN Append(entries, <<key, value>>)
  ELSE SortedInsert(entries, key, value)

(***************************************************************************)
(* The leaf productions.                                                   *)
(***************************************************************************)
\* the messages of the errors (a backquote of the source is written as a quote)
MsgNoChar == "Invalid encoding format, no character to parse"

MsgNoColon == "Invalid encoding format for string, colon separator not found"

MsgBadLength == "Invalid encoding format for string, invalid encoded length"

MsgNoE == "Invalid encoding format for number, 'e' delimiter not found"

MsgEmptyInt == "Invalid encoding format for number, trying to parse 'ie'"

MsgBadInt == "Invalid encoding format for number, invalid encoded number"

MsgListIncomplete == "Invalid encoding format, incomplete list encoding"

MsgDictIncomplete == "Invalid encoding format, incomplete dict encoding"

MsgKeyNotString == "Invalid encoding, dict's key must be string"

MsgUnhandled == "Unhandled encoded value: "

\* parse_bt_string with the end of the payload one character early
ParseBtStringShort(ev, pos) ==
  LET cur_range == SliceFrom(ev, pos)
      colon == Find(cur_range, ":")
  IN  IF ~colon.some THEN Returned(Err(ParseError(MsgNoColon)), pos)
      ELSE
        LET colon_index == colon.val
            number == ParseI64(Slice(cur_range, 0, colon_index))
        IN  IF ~number.ok THEN Returned(Err(ParseError(MsgBadLength)), pos)
            ELSE
              LET end == colon_index + number.val
              IN  IF end > Len(cur_range) THEN Panicked
                  ELSE Returned(Ok(BtString(Slice(cur_range, colon_index + 1, end))),
                                pos + end)

\* parse_bt_string with a payload slice that stops at the end of the input
\* instead of panicking
ParseBtStringUnchecked(ev, pos) ==
  LET cur_range == SliceFrom(ev, pos)
      colon == Find(cur_range, ":")
  IN  IF ~colon.some THEN Returned(Err(ParseError(MsgNoColon)), pos)
      ELSE
        LET colon_index == colon.val
            number == ParseI64(Slice(cur_range, 0, colon_index))
        IN  IF ~number.ok THEN Returned(Err(ParseError(MsgBadLength)), pos)
            ELSE
              LET end == colon_index + 1 + number.val
                  stop == IF end > Len(cur_range) THEN Len(cur_range) ELSE end
              IN  Returned(Ok(BtString(Slice(cur_range, colon_index + 1, stop))),
                           pos + end)

\* BencodeDecoder::parse_bt_string at cursor `pos`.  A negative length cast
\* `as usize` is larger than any input, so its slice panics as well (the
\* dispatch on a leading digit keeps the length non-negative).
ParseBtString(ev, pos) ==
  LET cur_range == SliceFrom(ev, pos)
      colon == Find(cur_range, ":")
  IN  IF ~colon.some THEN Returned(Err(ParseError(MsgNoColon)), pos)
      ELSE
        LET colon_index == colon.val
            number == ParseI64(Slice(cur_range, 0, colon_index))
        IN  IF ~number.ok THEN Returned(Err(ParseError(MsgBadLength)), pos)
            ELSE IF number.val < 0 THEN Panicked
            ELSE
              LET end == colon_index + 1 + number.val
              IN  IF end > Len(cur_range) THEN Panicked
                  ELSE Returned(Ok(BtString(Slice(cur_range, colon_index + 1, end))),
                                pos + end)

\* parse_bt_integer without the advance of the cursor
ParseBtIntegerNoAdvance(ev, pos) ==
  LET cur_range == SliceFrom(ev, pos)
      e == Find(cur_range, "e")
  IN  IF ~e.some THEN Returned(Err(ParseError(MsgNoE)), pos)
      ELSE
        LET e_index == e.val
        IN  IF e_index = 1 THEN Returned(Err(ParseError(MsgEmptyInt)), pos)
            ELSE
              LET number == ParseI64(Slice(cur_range, 1, e_index))
              IN  IF ~number.ok THEN Returned(Err(ParseError(MsgBadInt)), pos)
                  ELSE Returned(Ok(BtNumber(number.val)), pos)

\* BencodeDecoder::parse_bt_integer at cursor `pos`
ParseBtInteger(ev, pos) ==
  LET cur_range == SliceFrom(ev, pos)
      e == Find(cur_range, "e")
  IN  IF ~e.some THEN Returned(Err(ParseError(MsgNoE)), pos)
      ELSE
        LET e_index == e.val
        IN  IF e_index = 1 THEN Returned(Err(ParseError(MsgEmptyInt)), pos)
            ELSE
              LET number == ParseI64(Slice(cur_range, 1, e_index))
              IN  IF ~number.ok THEN Returned(Err(ParseError(MsgBadInt)), pos)
                  ELSE Returned(Ok(BtNumber(number.val)), pos + e_index + 1)

\* the match of BencodeDecoder::decode on what discover_bencoding_type returned
\* (the eprintln of the Err arm writes to stderr and changes no state)
DecodeMatch(r) ==
  IF IsErr(r) THEN r
  ELSE LET bt == r.Ok
       IN  IF DOMAIN bt = {"BtString"} THEN Ok(JsonString(bt.BtString))
           ELSE IF DOMAIN bt = {"BtNumber"} THEN Ok(JsonNumber(bt.BtNumber))
           ELSE IF DOMAIN bt = {"BtLists"} THEN Ok(JsonArray(bt.BtLists))
           ELSE Ok(bt.BtDictionary)

(***************************************************************************)
(* The inputs.  A reference bencode encoder writes the valid encodings;    *)
(* the decoder is also run on every short text over Alphabet, on every     *)
(* proper prefix of a valid encoding, and on valid encodings followed by   *)
(* more text.                                                              *)
(***************************************************************************)
\* the longest text of the exhaustive family
MaxLen == 4

\* the most items of a generated list and the most entries of a generated dictionary
MaxItems == 2

Alphabet == {"0", "1", ":", "-", "a", "e", "i", "l", "d"}

SeqsUpTo(S, n) == UNION {[1..k -> S] : k \in 0..n}

ShortTexts == SeqsUpTo(Alphabet, MaxLen)

DigitChars == <<"0", "1", "2", "3", "4", "5", "6", "7", "8", "9">>

\* the decimal text of n >= 0
RECURSIVE ToStr(_)
ToStr(n) ==
  IF n < 10 THEN <<DigitChars[n + 1]>>
  ELSE ToStr(n \div 10) \o <<DigitChars[(n % 10) + 1]>>

EncodeString(s) == ToStr(Len(s)) \o <<":">> \o s

EncodeNumber(n) ==
  <<"i">> \o (IF n < 0 THEN <<"-">> \o ToStr(0 - n) ELSE ToStr(n)) \o <<"e">>

\* the bencode text of a value; an object's entries are written in their order
RECURSIVE Encode(_)
RECURSIVE EncodeItems(_)
RECURSIVE EncodeEntries(_)
Encode(v) ==
  IF DOMAIN v = {"String"} THEN EncodeString(v.String)
  ELSE IF DOMAIN v = {"Number"} THEN EncodeNumber(v.Number)
  ELSE IF DOMAIN v = {"Array"} THEN <<"l">> \o EncodeItems(v.Array) \o <<"e">>
  ELSE <<"d">> \o EncodeEntries(v.Object) \o <<"e">>

EncodeItems(items) ==
  IF items = <<>> THEN <<>> ELSE Encode(Head(items)) \o EncodeItems(Tail(items))

EncodeEntries(entries) ==
  IF entries = <<>> THEN <<>>
  ELSE EncodeString(Head(entries)[1]) \o Encode(Head(entries)[2])
       \o EncodeEntries(Tail(entries))

KeysOf(entries) == [i \in 1..Len(entries) |-> entries[i][1]]

DistinctKeys(entries) ==
  \A i, j \in 1..Len(entries) : entries[i][1] = entries[j][1] => i = j

SortedKeys(entries) ==
  \A i, j \in 1..Len(entries) : i < j => StrLess(entries[i][1], entries[j][1])

TenChars == <<"s", "p", "a", "m", ":", "e", "1", "i", "l", "d">>

StringPayloads ==
  {<<>>, <<"a">>, <<"e">>, <<":">>, <<"1">>, <<"e", ":", "1">>,
   <<"s", "p", "a", "m">>, TenChars}

Leaves ==
  {JsonString(s) : s \in StringPayloads} \cup {JsonNumber(n) : n \in {0, 7, 0 - 3, 42}}

EntryKeys == {<<"a">>, <<"b">>, <<"a", "b">>}

EntryValues == {JsonNumber(1), JsonString(<<"x">>)}

\* dictionaries as written: the entries in any order, repeated keys included
Dicts ==
  {JsonObject(es) : es \in SeqsUpTo(EntryKeys \X EntryValues, MaxItems)}

CanonicalDicts == {d \in Dicts : SortedKeys(d.Object)}

ListItems ==
  {JsonString(<<>>), JsonString(<<"a">>), JsonString(<<"e", ":", "1">>),
   JsonNumber(0), JsonNumber(0 - 3), JsonNumber(42),
   JsonString(<<"s", "p", "a", "m">>),
   JsonArray(<<>>), JsonArray(<<JsonString(<<"a">>), JsonNumber(7)>>),
   JsonObject(<<>>), JsonObject(<<<<<<"a">>, JsonNumber(1)>>>>)}

Lists == {JsonArray(items) : items \in SeqsUpTo(ListItems, MaxItems)}

\* depth 3 and 4, mixing the four productions
DeepValues ==
  {JsonArray(<<JsonArray(<<JsonArray(<<JsonNumber(1)>>), JsonString(<<"a">>)>>),
               JsonObject(<<<<<<"a">>, JsonArray(<<JsonNumber(2)>>)>>>>)>>),
   JsonObject(<<<<<<"a">>, JsonArray(<<JsonString(<<"b">>),
                  JsonObject(<<<<<<"c">>, JsonArray(<<JsonNumber(1)>>)>>>>)>>)>>,
                <<<<"b">>, JsonNumber(0 - 3)>>>>)}

\* the values every build decodes to themselves
Values == Leaves \cup Lists \cup CanonicalDicts \cup DeepValues

Documents == {Encode(v) : v \in Values}

DictDocuments == {Encode(d) : d \in Dicts}

ProperPrefixes(text) == {SubSeq(text, 1, k) : k \in 0..(Len(text) - 1)}

TruncatedDocuments == UNION {ProperPrefixes(d) : d \in Documents \cup DictDocuments}

Trailers == {<<"e">>, <<"1", ":">>, <<"i", "1", "e">>, <<":", "a">>}

TrailedDocuments == {d \o t : d \in Documents, t \in Trailers}

\* a dictionary whose key position holds a production that is not a byte string,
\* after well-formed entries
NonStringKeys ==
  {JsonNumber(1), JsonArray(<<>>), JsonArray(<<JsonString(<<"a">>)>>),
   JsonObject(<<>>), JsonObject(<<<<<<"a">>, JsonNumber(1)>>>>)}

KeyTails == {<<>>, <<"i", "2", "e", "e">>, <<"1", ":", "a">>}

EntriesBefore ==
  SeqsUpTo({<<<<"a">>, JsonNumber(1)>>, <<<<"b">>, JsonString(<<"x">>)>>}, MaxItems)

BadKeyDicts ==
  {<<"d">> \o EncodeEntries(es) \o Encode(k) \o t :
     es \in EntriesBefore, k \in NonStringKeys, t \in KeyTails}

\* a text inside a list and as a dictionary value
Nested(texts) ==
  {<<"l">> \o t \o <<"e">> : t \in texts}
    \cup {<<"d", "1", ":", "a">> \o t \o <<"e">> : t \in texts}

BadKeyDocuments == BadKeyDicts \cup Nested(BadKeyDicts)

\* "4:sp", "l4:spami42ee" and "d3:keyi5ei1ei2ee"
TruncatedSpam == <<"4", ":", "s", "p">>

SpamList == <<"l", "4", ":", "s", "p", "a", "m", "i", "4", "2", "e", "e">>

IntegerKeyExample ==
  <<"d", "3", ":", "k", "e", "y", "i", "5", "e", "i", "1", "e", "i", "2", "e", "e">>

\* the examples of the specification's section 8
Fixtures ==
  {<<"4", ":", "s", "p", "a", "m">>, TruncatedSpam, SpamList, IntegerKeyExample,
   <<"i", "0", "e">>, <<"i", "-", "0", "e">>, <<"i", "0", "3", "e">>, <<"i", "e">>,
   <<"i", "+", "7", "e">>, <<"0", "2", ":", "a", "b">>,
   <<"l", "i", "-", "0", "e", "i", "0", "3", "e", "e">>}

Inputs ==
  ShortTexts \cup Documents \cup DictDocuments \cup TruncatedDocuments
    \cup TrailedDocuments \cup BadKeyDocuments \cup Fixtures

(***************************************************************************)
(* The decoder as a state machine.                                         *)
(***************************************************************************)
NoResult == [Pending |-> TRUE]

ListFrame == [fn |-> "parse_bt_list", list |-> <<>>]

DictFrame == [fn |-> "parse_bt_dic", dict |-> <<>>, key |-> None]

Top == stack[Len(stack)]

Pop == SubSeq(stack, 1, Len(stack) - 1)

ReplaceTop(frame) == Append(Pop, frame)

InList == stack # <<>> /\ Top.fn = "parse_bt_list"

InDict == stack # <<>> /\ Top.fn = "parse_bt_dic"

CurRange == SliceFrom(encoded_value, start_pos)

\* the pending discover_bencoding_type call was made by decode (a list item, a
\* dictionary value or the top-level call) and not for a dictionary key
ViaDecode == stack = <<>> \/ InList \/ (InDict /\ Top.key.some)


(***************************************************************************)
(* discover_bencoding_type: dispatch on the character at the cursor.       *)
(***************************************************************************)
Discovering == pc = "discover_bencoding_type"

\* the Err of discover_bencoding_type when no character is left
NoCharError(ev) == Err(ParseError(MsgNoChar))

\* the final else branch with the error kind of the other branches
UnhandledAsParseError(ev) == Err(ParseError(<<MsgUnhandled, ev>>))

\* the Err of discover_bencoding_type's final else branch
UnhandledError(ev) == Err(Other(<<MsgUnhandled, ev>>))

DiscoverNoChar ==
  /\ Discovering
  /\ ~FirstChar(CurRange).some
  /\ ret' = NoCharError(encoded_value)
  /\ pc' = "return"
  /\ UNCHANGED <<encoded_value, start_pos, stack, result, preserve_order>>

CallParseBtString ==
  /\ Discovering
  /\ FirstChar(CurRange).some
  /\ IsDigit(FirstChar(CurRange).val)
  /\ LET r == ParseBtString(encoded_value, start_pos)
     IN  IF r.panicked
         THEN /\ pc' = "panic"
              /\ UNCHANGED <<start_pos, ret>>
         ELSE /\ pc' = "return"
              /\ ret' = r.ret
              /\ start_pos' = r.pos
  /\ UNCHANGED <<encoded_value, stack, result, preserve_order>>

CallParseBtInteger ==
  /\ Discovering
  /\ FirstChar(CurRange) = Some("i")
  /\ LET r == ParseBtInteger(encoded_value, start_pos)
     IN  /\ pc' = "return"
         /\ ret' = r.ret
         /\ start_pos' = r.pos
  /\ UNCHANGED <<encoded_value, stack, result, preserve_order>>

\* parse_bt_list up to its loop
CallParseBtList ==
  /\ Discovering
  /\ FirstChar(CurRange) = Some("l")
  /\ start_pos' = start_pos + 1
  /\ stack' = Append(stack, ListFrame)
  /\ pc' = "parse_bt_list"
  /\ UNCHANGED <<encoded_value, ret, result, preserve_order>>

\* parse_bt_dic up to its loop
CallParseBtDic ==
  /\ Discovering
  /\ FirstChar(CurRange) = Some("d")
  /\ start_pos' = start_pos + 1
  /\ stack' = Append(stack, DictFrame)
  /\ pc' = "parse_bt_dic"
  /\ UNCHANGED <<encoded_value, ret, result, preserve_order>>

DiscoverUnhandled ==
  /\ Discovering
  /\ FirstChar(CurRange).some
  /\ ~IsDigit(FirstChar(CurRange).val)
  /\ FirstChar(CurRange).val \notin {"i", "l", "d"}
  /\ ret' = UnhandledError(encoded_value)
  /\ pc' = "return"
  /\ UNCHANGED <<encoded_value, start_pos, stack, result, preserve_order>>

(***************************************************************************)
(* One pass through the head of the loop of parse_bt_list.                 *)
(***************************************************************************)
ListIncomplete ==
  /\ pc = "parse_bt_list"
  /\ ~FirstChar(CurRange).some
  /\ ret' = Err(ParseError(MsgListIncomplete))
  /\ stack' = Pop
  /\ pc' = "return"
  /\ UNCHANGED <<encoded_value, start_pos, result, preserve_order>>

\* where the cursor is left by the closing 'e' of a list
ListEndPos(pos) == pos + 1

ListEnd ==
  /\ pc = "parse_bt_list"
  /\ FirstChar(CurRange) = Some("e")
  /\ start_pos' = ListEndPos(start_pos)
  /\ ret' = Ok(BtLists(Top.list))
  /\ stack' = Pop
  /\ pc' = "return"
  /\ UNCHANGED <<encoded_value, result, preserve_order>>

\* list.push(self.decode()?): the call
ListItem ==
  /\ pc = "parse_bt_list"
  /\ FirstChar(CurRange).some
  /\ FirstChar(CurRange) # Some("e")
  /\ pc' = "discover_bencoding_type"
  /\ UNCHANGED <<encoded_value, start_pos, stack, ret, result, preserve_order>>

\* an insert at the front instead of a push
ListPushFront(list, item) == <<item>> \o list

\* the list after list.push(item)
ListPush(list, item) == Append(list, item)

\* list.push(self.decode()?): decode has returned
ReturnToList ==
  /\ pc = "return"
  /\ InList
  /\ LET r == DecodeMatch(ret)
     IN  IF IsErr(r)
         THEN /\ ret' = r
              /\ stack' = Pop
              /\ pc' = "return"
         ELSE /\ stack' = ReplaceTop([Top EXCEPT !.list = ListPush(Top.list, r.Ok)])
              /\ pc' = "parse_bt_list"
              /\ UNCHANGED ret
  /\ UNCHANGED <<encoded_value, start_pos, result, preserve_order>>

(***************************************************************************)
(* One pass through the head of the loop of parse_bt_dic.                  *)
(***************************************************************************)
DictIncomplete ==
  /\ pc = "parse_bt_dic"
  /\ ~FirstChar(CurRange).some
  /\ ret' = Err(ParseError(MsgDictIncomplete))
  /\ stack' = Pop
  /\ pc' = "return"
  /\ UNCHANGED <<encoded_value, start_pos, result, preserve_order>>

DictEnd ==
  /\ pc = "parse_bt_dic"
  /\ FirstChar(CurRange) = Some("e")
  /\ start_pos' = start_pos + 1
  /\ ret' = Ok(BtDictionary(JsonObject(Top.dict)))
  /\ stack' = Pop
  /\ pc' = "return"
  /\ UNCHANGED <<encoded_value, result, preserve_order>>

\* let next_decoded_val = self.discover_bencoding_type()?: the call
DictKey ==
  /\ pc = "parse_bt_dic"
  /\ FirstChar(CurRange).some
  /\ FirstChar(CurRange) # Some("e")
  /\ pc' = "discover_bencoding_type"
  /\ UNCHANGED <<encoded_value, start_pos, stack, ret, result, preserve_order>>

\* the key check with the other error kind
KeyCheckAsOther(bt) ==
  IF IsBtString(bt) THEN None ELSE Some(Err(Other(MsgKeyNotString)))

\* what parse_bt_dic does with a successfully decoded key production: None to
\* go on with the key, or the error it returns
KeyCheck(bt) ==
  IF IsBtString(bt) THEN None ELSE Some(Err(ParseError(MsgKeyNotString)))

\* the key production has returned; a string key is held while the value is decoded
ReturnKeyToDict ==
  /\ pc = "return"
  /\ InDict
  /\ ~Top.key.some
  /\ IF IsErr(ret)
     THEN /\ stack' = Pop
          /\ pc' = "return"
          /\ UNCHANGED ret
     ELSE IF KeyCheck(ret.Ok).some
     THEN /\ ret' = KeyCheck(ret.Ok).val
          /\ stack' = Pop
          /\ pc' = "return"
     ELSE /\ stack' = ReplaceTop([Top EXCEPT !.key = Some(ret.Ok.BtString)])
          /\ pc' = "discover_bencoding_type"
          /\ UNCHANGED ret
  /\ UNCHANGED <<encoded_value, start_pos, result, preserve_order>>

\* dict.insert(key, self.decode()?): decode has returned
ReturnValueToDict ==
  /\ pc = "return"
  /\ InDict
  /\ Top.key.some
  /\ LET r == DecodeMatch(ret)
     IN  IF IsErr(r)
         THEN /\ ret' = r
              /\ stack' = Pop
              /\ pc' = "return"
         ELSE /\ stack' = ReplaceTop(
                   [Top EXCEPT !.dict = MapInsert(Top.dict, Top.key.val, r.Ok, preserve_order),
                               !.key = None])
              /\ pc' = "parse_bt_dic"
              /\ UNCHANGED ret
  /\ UNCHANGED <<encoded_value, start_pos, result, preserve_order>>

(***************************************************************************)
(* decode_bencoded_value: decoder.decode().unwrap(), and main's println.   *)
(***************************************************************************)
\* the outermost decode returns to decode_bencoded_value
ReturnToCaller ==
  /\ pc = "return"
  /\ stack = <<>>
  /\ result' = DecodeMatch(ret)
  /\ pc' = "decoded"
  /\ UNCHANGED <<encoded_value, start_pos, stack, ret, preserve_order>>

UnwrapOk ==
  /\ pc = "decoded"
  /\ IsOk(result)
  /\ pc' = "printed"
  /\ UNCHANGED <<encoded_value, start_pos, stack, ret, result, preserve_order>>

UnwrapErr ==
  /\ pc = "decoded"
  /\ IsErr(result)
  /\ pc' = "panic"
  /\ UNCHANGED <<encoded_value, start_pos, stack, ret, result, preserve_order>>

Next ==
  \/ DiscoverNoChar
  \/ CallParseBtString
  \/ CallParseBtInteger
  \/ CallParseBtList
  \/ CallParseBtDic
  \/ DiscoverUnhandled
  \/ ListIncomplete
  \/ ListEnd
  \/ ListItem
  \/ ReturnToList
  \/ DictIncomplete
  \/ DictEnd
  \/ DictKey
  \/ ReturnKeyToDict
  \/ ReturnValueToDict
  \/ ReturnToCaller
  \/ UnwrapOk
  \/ UnwrapErr

Init ==
  /\ encoded_value \in Inputs
  /\ start_pos = 0
  /\ stack = <<>>
  /\ pc = "discover_bencoding_type"
  /\ ret = NoResult
  /\ result = NoResult
  /\ preserve_order \in BOOLEAN

Spec == Init /\ [][Next]_vars

\* the program is sequential: a step that can be taken is taken
FairSpec == Spec /\ WF_vars(Next)

(***************************************************************************)
(* Properties.                                                             *)
(***************************************************************************)
\* the decoder panicked before decoder.decode() returned
DecodePanicked == pc = "panic" /\ result = NoResult

Rest == SliceFrom(encoded_value, start_pos)

\* C1: on every proper prefix of a valid encoding, decode returns a Parse error
\* as a value and does not panic.
TruncationIsParseError ==
  encoded_value \in TruncatedDocuments =>
    /\ ~DecodePanicked
    /\ pc = "decoded" => IsParseError(result)

\* the digit run of the integer production at the cursor: the text between the
\* 'i' and the first 'e'
AtInteger ==
  Discovering /\ FirstChar(Rest) = Some("i") /\ \E k \in 1..Len(Rest) : Rest[k] = "e"

DigitRun ==
  LET k == CHOOSE k \in 1..Len(Rest) : Rest[k] = "e" /\ \A j \in 1..(k - 1) : Rest[j] # "e"
  IN  SubSeq(Rest, 2, k - 1)

IllegalDigitRun(run) ==
  \/ run = <<>>
  \/ run = <<"-", "0">>
  \/ Len(run) > 1 /\ run[1] = "0"

\* C2: the integer production rejects an empty digit run, negative zero and a
\* leading zero, and decodes the digit run "0" to 0.
IntegerRejectsIllegalForms ==
  [][AtInteger =>
       /\ IllegalDigitRun(DigitRun) => (pc' = "return" /\ IsErr(ret'))
       /\ DigitRun = <<"0">> => (pc' = "return" /\ ret' = Ok(BtNumber(0)))]_vars

\* the text at the cursor starts with the valid byte string of a payload of n characters
StartsWithString(n) ==
  LET head == ToStr(n) \o <<":">>
  IN  /\ Len(Rest) >= Len(head) + n
      /\ SubSeq(Rest, 1, Len(head)) = head

PayloadAtCursor(n) == SubSeq(Rest, Len(ToStr(n)) + 2, Len(ToStr(n)) + 1 + n)

\* C3: a valid byte string "<n>:<s>" at the cursor decodes to s, whatever s
\* holds and whatever follows it, and the cursor advances by n + len(str(n)) + 1.
StringDecodesExactly ==
  [][\A n \in 0..Len(encoded_value) :
       (Discovering /\ StartsWithString(n)) =>
         /\ pc' = "return"
         /\ DecodeMatch(ret') = Ok(JsonString(PayloadAtCursor(n)))
         /\ start_pos' = start_pos + n + Len(ToStr(n)) + 1]_vars

\* a ten-character payload holding ':', 'e' and a digit was decoded, with text after it
StringDecodedWitness ==
  /\ pc = "return"
  /\ ret = Ok(BtString(TenChars))
  /\ start_pos = Len(EncodeString(TenChars))
  /\ start_pos < Len(encoded_value)

\* C4: the cursor stays within 0..length of the input and never decreases.
CursorInBoundsAndMonotone ==
  [][/\ start_pos \in 0..Len(encoded_value)
     /\ start_pos' \in 0..Len(encoded_value')
     /\ start_pos' >= start_pos]_vars

\* a failing decode, two productions deep, with the cursor at the end of the input
CursorAtEndNestedWitness ==
  /\ Len(stack) >= 2
  /\ pc = "return"
  /\ IsErr(ret)
  /\ start_pos = Len(encoded_value)
  /\ start_pos > 0

NoCharAtCursor == ~FirstChar(Rest).some

UnhandledCharAtCursor ==
  /\ FirstChar(Rest).some
  /\ FirstChar(Rest).val \notin Digits \cup {"i", "l", "d"}

\* C5 as stated: decode at the end of the input or at a character other than a
\* digit, 'i', 'l', 'd' fails with an error of kind Other.
DecodeUnhandledIsOther ==
  [][(Discovering /\ ViaDecode /\ (NoCharAtCursor \/ UnhandledCharAtCursor)) =>
       (pc' = "return" /\ IsOther(DecodeMatch(ret')))]_vars

\* C5 as amended: Other for a character that starts no production, Parse at
\* the end of the input.
DecodeUnhandledOtherNoCharParse ==
  [][(Discovering /\ ViaDecode) =>
       /\ UnhandledCharAtCursor =>
            (pc' = "return" /\ DecodeMatch(ret') = Err(Other(<<MsgUnhandled, encoded_value>>)))
       /\ NoCharAtCursor =>
            (pc' = "return" /\ DecodeMatch(ret') = Err(ParseError(MsgNoChar)))]_vars

\* decode of a dictionary value failed with Other
UnhandledNestedWitness ==
  /\ pc = "return"
  /\ IsOther(ret)
  /\ InDict
  /\ Top.key.some

\* C6: a dictionary with a successfully decoded key production that is not a
\* byte string makes decode fail with the Parse error "dict's key must be
\* string", whatever entries came before it.
NonStringKeyRejected ==
  (pc = "decoded" /\ encoded_value \in BadKeyDocuments \cup {IntegerKeyExample}) =>
    result = Err(ParseError(MsgKeyNotString))

NonStringKeyWitness ==
  /\ pc = "decoded"
  /\ encoded_value = IntegerKeyExample
  /\ IsParseError(result)

ListValues == Lists \cup {v \in DeepValues : DOMAIN v = {"Array"}}

ListInputs == {Encode(v) \o t : v \in ListValues, t \in Trailers \cup {<<>>}}

\* C7: a well-formed list decodes to the list of its items' values, in the
\* encoded order, and the cursor ends right after its closing 'e': the input is
\* the encoding of the result followed by the text after the cursor.
ListDecodesInOrder ==
  (pc = "decoded" /\ encoded_value \in ListInputs) =>
    /\ IsOk(result)
    /\ DOMAIN result.Ok = {"Array"}
    /\ Encode(result.Ok) = SubSeq(encoded_value, 1, start_pos)
    /\ Rest \in Trailers \cup {<<>>}

SpamListWitness ==
  /\ pc = "decoded"
  /\ encoded_value = SpamList
  /\ result = Ok(JsonArray(<<JsonString(<<"s", "p", "a", "m">>), JsonNumber(42)>>))
  /\ start_pos = Len(SpamList)

DistinctKeyCases ==
  {<<Encode(d), KeysOf(d.Object)>> : d \in {x \in Dicts : DistinctKeys(x.Object)}}

\* C8: the decoded dictionary iterates its keys in the order they have in the
\* input, sorted or not.
DictKeepsInputOrder ==
  (pc = "decoded" /\ encoded_value \in DictDocuments) =>
    \A c \in DistinctKeyCases :
      encoded_value = c[1] =>
        /\ IsOk(result)
        /\ DOMAIN result.Ok = {"Object"}
        /\ KeysOf(result.Ok.Object) = c[2]

DuplicateKeyCases ==
  {<<Encode(d), d.Object>> : d \in {x \in Dicts : ~DistinctKeys(x.Object)}}

\* the value of the last entry of `entries` with the key
LastValue(entries, key) ==
  entries[CHOOSE i \in 1..Len(entries) :
            /\ entries[i][1] = key
            /\ \A j \in (i + 1)..Len(entries) : entries[j][1] # key][2]

\* C9: a dictionary encoding that repeats a key decodes without error, to a
\* dictionary holding each key once, bound to the value of its last occurrence.
DuplicateKeyLastWins ==
  (pc = "decoded" /\ encoded_value \in DictDocuments) =>
    \A c \in DuplicateKeyCases :
      encoded_value = c[1] =>
        /\ IsOk(result)
        /\ DOMAIN result.Ok = {"Object"}
        /\ \A k \in {c[2][i][1] : i \in 1..Len(c[2])} :
             LET at == {i \in 1..Len(result.Ok.Object) : result.Ok.Object[i][1] = k}
             IN  /\ Cardinality(at) = 1
                 /\ \A i \in at : result.Ok.Object[i][2] = LastValue(c[2], k)
        /\ \A i \in 1..Len(result.Ok.Object) :
             \E j \in 1..Len(c[2]) : c[2][j][1] = result.Ok.Object[i][1]

\* "d1:ai1e1:a1:xe" was decoded to { "a": "x" }
DuplicateKeyWitness ==
  /\ pc = "decoded"
  /\ encoded_value =
       Encode(JsonObject(<<<<<<"a">>, JsonNumber(1)>>, <<<<"a">>, JsonString(<<"x">>)>>>>))
  /\ result = Ok(JsonObject(<<<<<<"a">>, JsonString(<<"x">>)>>>>))

Final == pc \in {"printed", "panic"}

\* the open productions and the items of each open list have each consumed
\* at least one character of the input
WorkBoundedByCursor ==
  /\ start_pos <= Len(encoded_value)
  /\ Len(stack) <= start_pos
  /\ \A i \in 1..Len(stack) :
       /\ stack[i].fn = "parse_bt_list" => Len(stack[i].list) + Len(stack) <= start_pos
       /\ stack[i].fn = "parse_bt_dic" => 2 * Len(stack[i].dict) + Len(stack) <= start_pos

\* where the control is among the steps that leave the cursor alone
Phase ==
  IF Final THEN 0
  ELSE IF pc = "decoded" THEN 1
  ELSE IF pc = "return" /\ IsErr(ret) THEN 2 + Len(stack)
  ELSE IF pc = "discover_bencoding_type" THEN 3 + Len(stack)
  ELSE IF pc \in {"parse_bt_list", "parse_bt_dic"} THEN 4 + Len(stack)
  ELSE 5 + Len(stack)

\* the characters left, then the phase
Rank == (Len(encoded_value) - start_pos) * (Len(encoded_value) + 6) + Phase

\* C10: every decode call ends, with a value, an error or a panic: every step
\* decreases a natural number bounded by the length of the input (a step
\* either moves the cursor forward or moves on within the steps at one cursor
\* position), and the nesting and the items decoded so far are bounded by the
\* cursor.
DecodeTerminates ==
  /\ [](WorkBoundedByCursor /\ Rank >= 0)
  /\ [][Rank' < Rank]_vars

\* only a finished run has no next step
NoStuckState == ~Final => ENABLED Next

\* the end of C10 as a liveness property of FairSpec
DecodeEventuallyEnds == <>(pc \in {"decoded", "panic"})

\* a decode of nested lists and dictionaries returned a value
DeepDecodedWitness ==
  /\ pc = "decoded"
  /\ IsOk(result)
  /\ encoded_value \in {Encode(v) : v \in DeepValues}

====
